---- MODULE Spec2Model ----
(***************************************************************************)
(* Model of the MP4 -> MOV batch converter (src/main.py).                  *)
(*                                                                         *)
(* State: the QListWidget of DropArea, the output-folder QLineEdit, the    *)
(* QProgressBar, the part of the file system the program reads and writes, *)
(* and the stack of active convert_files() calls.  convert_files() is a    *)
(* Qt slot that blocks in subprocess.run() and in modal dialogs and hands  *)
(* control back to the event loop in QApplication.processEvents(); a       *)
(* click on the convert button delivered there runs convert_files() again, *)
(* nested inside the first call, hence a stack of frames.                  *)
(*                                                                         *)
(* Strings are sequences of one-character strings, so that strip(),        *)
(* lower(), basename(), splitext() and suffix are computed, not assumed.   *)
(***************************************************************************)
EXTENDS Integers, Sequences, FiniteSets, TLC

VARIABLES
    list,             \* DropArea.list_widget: the item texts, in row order
    text,             \* output_input.text()
    fs,               \* what is at each candidate output directory path
    progress,         \* progress.value(), a percentage
    progressVisible,  \* progress.isVisible()
    stack,            \* active convert_files() frames, outermost first
    alive,            \* FALSE once an uncaught exception has ended the process
    platform,         \* sys.platform, fixed for a run of the program
    submitted         \* history: the input paths ever handed to subprocess.run

vars == <<list, text, fs, progress, progressVisible, stack, alive, platform, submitted>>

----------------------------------------------------------------------------
(* Bounds of the model *)

\* longest list the list widget holds
MaxList == 2
\* deepest nesting of convert_files() calls
MaxDepth == 2
\* most urls one drop carries
MaxUrls == 2

----------------------------------------------------------------------------
(* Strings *)

IsSpace(c) == c = " "

\* str.lstrip()
RECURSIVE LStrip(_)
LStrip(s) == IF s # <<>> /\ IsSpace(Head(s)) THEN LStrip(Tail(s)) ELSE s

\* str.rstrip()
RECURSIVE RStrip(_)
RStrip(s) ==
    IF s # <<>> /\ IsSpace(s[Len(s)]) THEN RStrip(SubSeq(s, 1, Len(s) - 1)) ELSE s

\* str.strip()
Strip(s) == RStrip(LStrip(s))

\* str.lower() on one character
LowerChar(c) ==
    CASE c = "M" -> "m"
      [] c = "P" -> "p"
      [] c = "C" -> "c"
      [] OTHER -> c

\* str.lower()
Lower(s) == [k \in 1..Len(s) |-> LowerChar(s[k])]

\* s.rfind(c): the last position of c in s, 0 when there is none
RFind(s, c) ==
    LET at == {k \in 1..Len(s) : s[k] = c}
    IN  IF at = {} THEN 0 ELSE CHOOSE k \in at : \A j \in at : j <= k

----------------------------------------------------------------------------
(* Paths *)

\* os.path.basename: what follows the last separator
basename(p) == SubSeq(p, RFind(p, "/") + 1, Len(p))

\* whether s ends with t
EndsWith(s, t) ==
    Len(s) >= Len(t) /\ SubSeq(s, Len(s) - Len(t) + 1, Len(s)) = t

\* mutant: only a lower-case .mp4 taken off
splitext_root_CaseSensitive(name) ==
    IF EndsWith(name, <<".", "m", "p", "4">>) THEN SubSeq(name, 1, Len(name) - 4) ELSE name

\* os.path.splitext(name)[0] for a name without separator: the extension
\* starts at the last dot, unless only dots precede it
splitext_root(name) ==
    LET d == RFind(name, ".")
    IN  IF d > 0 /\ \E k \in 1..(d - 1) : name[k] # "."
        THEN SubSeq(name, 1, d - 1)
        ELSE name

\* pathlib.PurePath.suffix: from the last dot of the final component, unless
\* that dot is its first or its last character
suffix(p) ==
    LET name == basename(p)
        d == RFind(name, ".")
    IN  IF d > 1 /\ d < Len(name) THEN SubSeq(name, d, Len(name)) ELSE <<>>

DotMp4 == <<".", "m", "p", "4">>
DotMov == <<".", "m", "o", "v">>

\* os.path.join(a, b) for a relative b
join(a, b) == a \o <<"/">> \o b

----------------------------------------------------------------------------
(* The file system the user drops from: a directory a holding c.mp4 and   *)
(* n.txt, and its sub-directory a/b holding c.MP4.                         *)

DirA == <<"a">>
DirAB == <<"a", "/", "b">>
FileAC == <<"a", "/", "c", ".", "m", "p", "4">>
FileABC == <<"a", "/", "b", "/", "c", ".", "M", "P", "4">>
FileAN == <<"a", "/", "n", ".", "t", "x", "t">>
NoSuchPath == <<"z">>

FsDirs == {DirA, DirAB}
\* the files, in the order a directory scan yields them
ScanOrder == <<FileAC, FileAN, FileABC>>
FsFiles == {ScanOrder[k] : k \in 1..Len(ScanOrder)}

\* what a drop can carry: url.toLocalFile() of one dragged url
Urls == FsFiles \cup FsDirs \cup {NoSuchPath}

Platforms == {"posix", "win32"}

is_file(p) == p \in FsFiles
is_dir(p) == p \in FsDirs

\* whether file f lies under directory d, at any depth
Under(d, f) == Len(f) > Len(d) + 1 /\ SubSeq(f, 1, Len(d) + 1) = d \o <<"/">>

\* fnmatch of a file name against "*.mp4": case-sensitive on posix,
\* case-insensitive on Windows
MatchesMp4(plat, f) ==
    IF plat = "win32" THEN EndsWith(Lower(basename(f)), DotMp4)
    ELSE EndsWith(basename(f), DotMp4)

\* SelectSeq with a two-argument test
RECURSIVE Filter(_, _, _)
Filter(s, plat, d) ==
    IF s = <<>> THEN <<>>
    ELSE (IF Under(d, Head(s)) /\ MatchesMp4(plat, Head(s)) THEN <<Head(s)>> ELSE <<>>)
         \o Filter(Tail(s), plat, d)

\* p.rglob("*.mp4")
rglob(plat, d) == Filter(ScanOrder, plat, d)

\* the items one url of a drop adds to the list (dropEvent, lines 65-71)
DropItems(plat, p) ==
    IF is_file(p) /\ Lower(suffix(p)) = DotMp4 THEN <<p>>
    ELSE IF is_dir(p) THEN rglob(plat, p)
    ELSE <<>>

----------------------------------------------------------------------------
(* Output directory *)

Digits == <<"0", "1", "2", "3", "4", "5", "6", "7", "8", "9">>
Digit(n) == Digits[n + 1]

\* "%02d" and "%04d"
Pad2(n) == <<Digit((n \div 10) % 10), Digit(n % 10)>>
Pad4(n) == Pad2(n \div 100) \o Pad2(n % 100)

\* datetime.strftime("%Y-%m-%d")
strftime_Ymd(now) == Pad4(now.year) \o <<"-">> \o Pad2(now.month) \o <<"-">> \o Pad2(now.day)

ConvertedPrefix == <<"C", "o", "n", "v", "e", "r", "t", "e", "d", "_">>

\* the values datetime.now() takes
Dates == {[year |-> 2024, month |-> 3, day |-> 7]}

\* what the user can type into the output-folder field
Texts == {<<>>, <<" ">>, <<" ", "x", " ">>}

\* mutant: the text used as typed, not stripped
resolve_Verbatim(userInput, now) ==
    IF Strip(userInput) # <<>> THEN userInput ELSE ConvertedPrefix \o strftime_Ymd(now)

\* lines 112-115: the output directory of a batch
resolve(userInput, now) ==
    LET output_dir == Strip(userInput)
    IN  IF output_dir # <<>> THEN output_dir ELSE ConvertedPrefix \o strftime_Ymd(now)

OutDirs == {resolve(t, d) : t \in Texts, d \in Dates}

\* what is found at an output directory path
FsStatus == {"absent", "dir", "file"}

\* os.path.exists
exists(fsv, d) == fsv[d] # "absent"

----------------------------------------------------------------------------
(* Frames of convert_files() *)

\* int((i / total_files) * 100), line 151
Pct(i, total) == (i * 100) \div total

\* a call of convert_files() that has read its inputs (lines 112-117)
NewFrame(files, output_dir, pc) ==
    [files |-> files,          \* the snapshot of the list, line 117
     output_dir |-> output_dir,
     i |-> 1,                  \* loop index, 1-based
     pc |-> pc,                \* where the call stands
     attempts |-> <<>>,        \* input paths handed to subprocess.run, in order
     calls |-> <<>>,           \* the argument list of each subprocess.run
     outcomes |-> <<>>,        \* exit status of each subprocess that ran
     emitted |-> <<>>,         \* values passed to progress.setValue in the loop
     fatal |-> FALSE,          \* FileNotFoundError was raised
     summary |-> -1]           \* the count shown by the "Done" dialog, -1: none

Top == stack[Len(stack)]
Front(s) == SubSeq(s, 1, Len(s) - 1)
SetTop(f) == [stack EXCEPT ![Len(stack)] = f]

\* mutant: ffmpeg started without waiting for it, events handled while it runs
UIAllowed_WhileRunning ==
    alive /\ (IF stack = <<>> THEN TRUE ELSE Top.pc \in {"pump", "run"})

\* The main window takes user input when the event loop runs and no modal
\* dialog blocks it: in app.exec_() (no call active) or in the
\* QApplication.processEvents() of line 152.  subprocess.run blocks the
\* thread, and the QMessageBox dialogs (lines 119, 144, 147, 155) are modal
\* to the window, whose input they block until dismissed.
UIAllowed == alive /\ (IF stack = <<>> THEN TRUE ELSE Top.pc = "pump")

----------------------------------------------------------------------------
(* Initial state: the window just shown (lines 161-165) *)

\* The output-folder field holds what the user typed before the first drop;
\* the path it names may be absent, a directory or a file, and the other
\* candidate paths, which the program then never looks at, are absent.
Init ==
    /\ list = <<>>
    /\ text \in Texts
    /\ fs \in {f \in [OutDirs -> FsStatus] :
                 \A d \in OutDirs : (\A now \in Dates : d # resolve(text, now)) => f[d] = "absent"}
    /\ progress = 0
    /\ progressVisible = FALSE
    /\ stack = <<>>
    /\ alive = TRUE
    /\ platform \in Platforms
    /\ submitted = {}

----------------------------------------------------------------------------
(* DropArea *)

\* what a drop carries: event.mimeData().urls()
UrlLists == UNION {[1..n -> Urls] : n \in 1..MaxUrls}

\* lines 64-71: every url of the drop, in order
RECURSIVE DropAll(_, _)
DropAll(plat, urls) ==
    IF urls = <<>> THEN <<>> ELSE DropItems(plat, Head(urls)) \o DropAll(plat, Tail(urls))

\* list_widget.addItem for each item (lines 68, 71)
addItems(l, items) == l \o items

\* DropArea.dropEvent with urls
dropEvent ==
    /\ UIAllowed
    /\ \E urls \in UrlLists :
          /\ Len(addItems(list, DropAll(platform, urls))) <= MaxList
          /\ list' = addItems(list, DropAll(platform, urls))
    /\ UNCHANGED <<text, fs, progress, progressVisible, stack, alive, platform, submitted>>

\* mutant: the row taken as counted from 0
takeItem_OffByOne(l, row) == SubSeq(l, 1, row) \o SubSeq(l, row + 2, Len(l))

\* list_widget.takeItem(row), rows counted from 1
takeItem(l, row) == SubSeq(l, 1, row - 1) \o SubSeq(l, row + 1, Len(l))

\* DropArea.remove_item: a double-click on the item of some row
remove_item ==
    /\ UIAllowed
    /\ \E row \in 1..Len(list) : list' = takeItem(list, row)
    /\ UNCHANGED <<text, fs, progress, progressVisible, stack, alive, platform, submitted>>

\* the user edits the output-folder field (not a step of Spec, whose
\* sessions have the field filled before the first drop)
editOutput ==
    /\ UIAllowed
    /\ \E t \in Texts : t # text /\ text' = t
    /\ UNCHANGED <<list, fs, progress, progressVisible, stack, alive, platform, submitted>>

----------------------------------------------------------------------------
(* ConverterApp.convert_files *)

\* mutant: the output directory made before the list is looked at
EmptyBatch_MakesDirFirst(files, output_dir) ==
    /\ stack' = Append(stack, NewFrame(files, output_dir, "warndlg"))
    /\ fs' = [fs EXCEPT ![output_dir] = IF @ = "absent" THEN "dir" ELSE @]
    /\ UNCHANGED <<list, text, progress, progressVisible, alive, platform, submitted>>

\* lines 118-120: nothing in the list; the warning dialog opens
EmptyBatch(files, output_dir) ==
    /\ stack' = Append(stack, NewFrame(files, output_dir, "warndlg"))
    /\ UNCHANGED <<list, text, fs, progress, progressVisible, alive, platform, submitted>>

\* lines 123-127 once the directory is there: progress reset and shown,
\* the loop is entered
EnterLoop(files, output_dir) ==
    /\ progress' = 0
    /\ progressVisible' = TRUE
    /\ stack' = Append(stack, NewFrame(files, output_dir, "loop"))
    /\ UNCHANGED <<list, text, platform, submitted>>

\* lines 123-129: os.makedirs is called only when nothing exists at the path,
\* and it either creates the directory or raises OSError, which no handler
\* catches: the slot is left, and PyQt5 either aborts the process or prints
\* the traceback and goes on, depending on its version
StartBatch(files, output_dir) ==
    IF exists(fs, output_dir)
    THEN /\ EnterLoop(files, output_dir)
         /\ UNCHANGED <<fs, alive>>
    ELSE \/ /\ fs' = [fs EXCEPT ![output_dir] = "dir"]
            /\ EnterLoop(files, output_dir)
            /\ UNCHANGED alive
         \/ /\ alive' \in BOOLEAN
            /\ UNCHANGED <<list, text, fs, progress, progressVisible, stack, platform, submitted>>

\* a click on the convert button: lines 110-129
convert_files ==
    /\ UIAllowed
    /\ Len(stack) < MaxDepth
    /\ \E now \in Dates :
          LET output_dir == resolve(text, now)
              files == list
          IN  IF files = <<>>
              THEN EmptyBatch(files, output_dir)
              ELSE StartBatch(files, output_dir)

\* lines 131-132: the output file of an input file
output_file(output_dir, file) ==
    join(output_dir, splitext_root(basename(file)) \o DotMov)

\* lines 135-142: the argument list given to subprocess.run; its first
\* element stands for the value of ffmpeg_path
argv(file, out) ==
    <<"ffmpeg_path", "-i", file, "-c:v", "copy", "-c:a", "pcm_s24le", out, "-y">>

\* lines 135-142 raise FileNotFoundError: the "FFmpeg Not Found" dialog opens
OnFileNotFound(f) == [f EXCEPT !.fatal = TRUE, !.pc = "nfdlg"]

\* lines 130-142: the next file of the snapshot is handed to subprocess.run,
\* which starts ffmpeg or finds no executable
launch ==
    /\ alive /\ stack # <<>> /\ Top.pc = "loop" /\ Top.i <= Len(Top.files)
    /\ \E found \in BOOLEAN :
          LET file == Top.files[Top.i]
              f == [Top EXCEPT !.attempts = Append(@, file),
                               !.calls = Append(@, argv(file, output_file(Top.output_dir, file)))]
          IN  /\ stack' = SetTop(IF found THEN [f EXCEPT !.pc = "run"] ELSE OnFileNotFound(f))
              /\ submitted' = submitted \cup {file}
    /\ UNCHANGED <<list, text, fs, progress, progressVisible, alive, platform>>

\* exit code zero: lines 150-152, the progress is set and processEvents entered
OnSuccess(f) ==
    [f EXCEPT !.outcomes = Append(@, "ok"),
              !.emitted = Append(@, Pct(f.i, Len(f.files))),
              !.pc = "pump"]

\* non-zero exit code: lines 143-144, the "Conversion Error" dialog opens
OnCalledProcessError(f) == [f EXCEPT !.outcomes = Append(@, "fail"), !.pc = "errdlg"]

\* what ffmpeg exits with
ExitCodes == {0, 1}

\* ffmpeg exits; subprocess.run(check=True) returns or raises CalledProcessError
subprocessExit ==
    /\ alive /\ stack # <<>> /\ Top.pc = "run"
    /\ \E code \in ExitCodes :
          IF code = 0
          THEN /\ stack' = SetTop(OnSuccess(Top))
               /\ progress' = Pct(Top.i, Len(Top.files))
          ELSE /\ stack' = SetTop(OnCalledProcessError(Top))
               /\ UNCHANGED progress
    /\ UNCHANGED <<list, text, fs, progressVisible, alive, platform, submitted>>

\* mutant: the loop index is not advanced
NextFile_Stays(f) == [f EXCEPT !.pc = "loop"]

\* the loop goes to the next file
NextFile(f) == [f EXCEPT !.i = @ + 1, !.pc = "loop"]

\* line 152: QApplication.processEvents() returns
processEventsReturn ==
    /\ alive /\ stack # <<>> /\ Top.pc = "pump"
    /\ stack' = SetTop(NextFile(Top))
    /\ UNCHANGED <<list, text, fs, progress, progressVisible, alive, platform, submitted>>

\* mutant: break instead of continue
AfterError_Breaks(f) == [f EXCEPT !.i = Len(f.files) + 1, !.pc = "loop"]

\* line 145: continue
AfterError(f) == NextFile(f)

\* the "Conversion Error" dialog is dismissed
dismissError ==
    /\ alive /\ stack # <<>> /\ Top.pc = "errdlg"
    /\ stack' = SetTop(AfterError(Top))
    /\ UNCHANGED <<list, text, fs, progress, progressVisible, alive, platform, submitted>>

\* mutant: continue instead of return
dismissNotFound_Continues ==
    /\ alive /\ stack # <<>> /\ Top.pc = "nfdlg"
    /\ stack' = SetTop(NextFile(Top))
    /\ UNCHANGED <<list, text, fs, progress, progressVisible, alive, platform, submitted>>

\* the "FFmpeg Not Found" dialog is dismissed; line 148: return
dismissNotFound ==
    /\ alive /\ stack # <<>> /\ Top.pc = "nfdlg"
    /\ stack' = Front(stack)
    /\ UNCHANGED <<list, text, fs, progress, progressVisible, alive, platform, submitted>>

\* the count the "Done" dialog shows, line 155
SummaryCount(f) == Len(f.files)

\* lines 154-155: the loop is over, the bar is hidden, the "Done" dialog opens
loopEnd ==
    /\ alive /\ stack # <<>> /\ Top.pc = "loop" /\ Top.i > Len(Top.files)
    /\ progressVisible' = FALSE
    /\ stack' = SetTop([Top EXCEPT !.pc = "donedlg", !.summary = SummaryCount(Top)])
    /\ UNCHANGED <<list, text, fs, progress, alive, platform, submitted>>

\* the "Done" dialog is dismissed; line 156: the list is cleared
dismissDone ==
    /\ alive /\ stack # <<>> /\ Top.pc = "donedlg"
    /\ list' = <<>>
    /\ stack' = Front(stack)
    /\ UNCHANGED <<text, fs, progress, progressVisible, alive, platform, submitted>>

\* the warning dialog is dismissed; line 120: return
dismissWarning ==
    /\ alive /\ stack # <<>> /\ Top.pc = "warndlg"
    /\ stack' = Front(stack)
    /\ UNCHANGED <<list, text, fs, progress, progressVisible, alive, platform, submitted>>

Next ==
    \/ dropEvent
    \/ remove_item
    \/ convert_files
    \/ launch
    \/ subprocessExit
    \/ processEventsReturn
    \/ dismissError
    \/ dismissNotFound
    \/ loopEnd
    \/ dismissDone
    \/ dismissWarning

Spec == Init /\ [][Next]_vars

----------------------------------------------------------------------------
(* Properties *)

Frames == {stack[k] : k \in 1..Len(stack)}
Total(f) == Len(f.files)
NumOk(f) == Cardinality({j \in 1..Len(f.outcomes) : f.outcomes[j] = "ok"})
NumFailed(f) == Cardinality({j \in 1..Len(f.outcomes) : f.outcomes[j] = "fail"})
\* the progress values i/total for jobs 1..n of a batch of f's size
Fractions(f, n) == [j \in 1..n |-> Pct(j, Total(f))]
Running == {k \in 1..Len(stack) : stack[k].pc = "run"}

\* C1: after every job that ran, successful or not, the progress i/total has
\* been emitted before the next job starts, so while job i runs the values
\* emitted are those of jobs 1..i-1 and at the end those of all jobs.
C1_ProgressAfterEveryJob ==
    \A f \in Frames :
        /\ f.pc = "run" => f.emitted = Fractions(f, f.i - 1)
        /\ f.pc = "donedlg" => f.emitted = Fractions(f, Total(f))

\* C2: a batch that ran to completion has emitted 100% as its last progress
\* value.
C2_CompletedBatchReachesFull ==
    \A f \in Frames :
        f.pc = "donedlg" => f.emitted # <<>> /\ f.emitted[Len(f.emitted)] = 100

\* C3: the count of the completion summary is the number of jobs whose
\* converter exited with code zero, and with the failures it adds up to the
\* total.
C3_SummaryCountsSuccesses ==
    \A f \in Frames :
        f.pc = "donedlg" =>
            /\ f.summary = NumOk(f)
            /\ f.summary + NumFailed(f) = Total(f)

\* a call in which the converter was not found stands in its dialog, is the
\* innermost call, has attempted its first i paths only (one more than the
\* jobs that ran) and has produced no summary
C4_FatalFrameStands ==
    \A k \in 1..Len(stack) :
        stack[k].fatal =>
            /\ k = Len(stack)
            /\ stack[k].pc = "nfdlg"
            /\ stack[k].attempts = SubSeq(stack[k].files, 1, stack[k].i)
            /\ Len(stack[k].attempts) = Len(stack[k].outcomes) + 1
            /\ stack[k].summary = -1

\* the only step of such a call is its return, which changes nothing else
C4_FatalFrameReturns ==
    (IF stack = <<>> THEN FALSE ELSE Top.fatal) =>
        /\ stack' = Front(stack)
        /\ UNCHANGED <<list, fs, progress, progressVisible>>

\* C4: when the converter executable is not found for job k the batch aborts
\* at once: no path after k is handed to the converter, no progress is
\* emitted afterwards, no completion summary is produced.
C4_NotFoundAborts == [](C4_FatalFrameStands) /\ [][C4_FatalFrameReturns]_vars

C4_Witness ==
    /\ stack # <<>>
    /\ Top.fatal
    /\ Len(Top.attempts) = 1
    /\ Len(Top.files) > 1

\* what a batch has handed to the converter is a prefix of its snapshot, the
\* whole of it once the batch has completed
C5_AttemptsFollowSnapshot ==
    \A f \in Frames :
        /\ f.attempts = SubSeq(f.files, 1, Len(f.attempts))
        /\ Len(f.attempts) <= Total(f)
        /\ f.pc = "donedlg" => f.attempts = f.files

\* a step keeps the snapshot of every call that stays active and hands at
\* most one more path to the converter; a call ends only from the "Done"
\* dialog, the not-found dialog or the empty-list warning
C5_StepKeepsSnapshot ==
    /\ \A k \in 1..Len(stack) :
          k <= Len(stack') =>
              /\ stack'[k].files = stack[k].files
              /\ \/ stack'[k].attempts = stack[k].attempts
                 \/ stack'[k].attempts = Append(stack[k].attempts, stack[k].files[stack[k].i])
    /\ Len(stack') < Len(stack) => Top.pc \in {"donedlg", "nfdlg", "warndlg"}
    /\ (IF stack = <<>> THEN FALSE ELSE Top.pc = "errdlg") =>
          /\ Len(stack') = Len(stack)
          /\ stack'[Len(stack)].i = Top.i + 1

\* C5: without ConverterNotFound a failed job never stops the batch: every
\* path of the snapshot is handed to the converter exactly once, in snapshot
\* order, whatever is added to or removed from the list meanwhile.
C5_EveryPathOnceInOrder == [](C5_AttemptsFollowSnapshot) /\ [][C5_StepKeepsSnapshot]_vars

C5_Witness ==
    /\ stack # <<>>
    /\ Top.pc = "donedlg"
    /\ Top.outcomes = <<"ok", "fail">>
    /\ list # Top.files

\* a call that found the list empty stands in its warning dialog, has
\* attempted nothing and emitted nothing, and the list is still empty
C6_EmptyFrameIdle ==
    \A k \in 1..Len(stack) :
        stack[k].files = <<>> =>
            /\ k = Len(stack)
            /\ stack[k].pc = "warndlg"
            /\ stack[k].attempts = <<>>
            /\ stack[k].emitted = <<>>
            /\ list = <<>>

\* the trigger on an empty list only opens the warning, and dismissing it
\* only returns
C6_EmptyStepChangesNothing ==
    /\ (list = <<>> /\ Len(stack') > Len(stack)) =>
          /\ stack'[Len(stack')].pc = "warndlg"
          /\ Front(stack') = stack
          /\ UNCHANGED <<list, text, fs, progress, progressVisible, alive>>
    /\ (IF stack = <<>> THEN FALSE ELSE Top.pc = "warndlg") =>
          /\ stack' = Front(stack)
          /\ UNCHANGED <<list, text, fs, progress, progressVisible, alive>>

\* C6: a trigger while the list is empty ends with EmptyBatch and has no
\* side effect: no directory is created, no converter invoked, no progress
\* emitted, and the runner is back where it was with the list still empty.
C6_EmptyBatchNoEffect == [](C6_EmptyFrameIdle) /\ [][C6_EmptyStepChangesNothing]_vars

C6_Witness ==
    /\ stack # <<>>
    /\ Top.pc = "warndlg"
    /\ fs[Top.output_dir] = "absent"

\* C7: the list never holds the same path string twice.
C7_NoDuplicates ==
    \A j, k \in 1..Len(list) : j # k => list[j] # list[k]

\* C8: a path is handed to the converter only while the output directory of
\* its batch exists as a directory.
C8_DirectoryExistsAtInvocation ==
    \A f \in Frames : f.attempts # <<>> => fs[f.output_dir] = "dir"

\* C9: while a batch runs, no drop and no double-click changes the list:
\* a step that leaves every active call where it is leaves the list as it is.
C9_ListFrozenDuringBatch ==
    [][(stack # <<>> /\ stack' = stack) => list' = list]_vars

\* while a converter subprocess runs no user event is handled: the list and
\* the field keep their contents and no call begins or ends
C10_NoEventWhileRunning ==
    Running # {} => (list' = list /\ text' = text /\ Len(stack') = Len(stack))

\* C10: at most one converter subprocess runs at any time, and user events
\* are handled only between jobs, never while a subprocess runs.
C10_OneJobAtATime == [](Cardinality(Running) <= 1) /\ [][C10_NoEventWhileRunning]_vars

C10_Witness ==
    /\ Len(stack) = 2
    /\ stack[1].pc = "pump"
    /\ stack[2].pc = "run"

\* C11: a batch clears the list exactly when it runs to completion: the
\* return from the "Done" dialog leaves the list empty, and the return after
\* EmptyBatch or after ConverterNotFound leaves in the list the paths the
\* batch read at its start.
C11_ClearedExactlyOnCompletion ==
    [][(IF stack = <<>> THEN FALSE ELSE Len(stack') < Len(stack)) =>
          /\ Top.pc = "donedlg" => list' = <<>>
          /\ Top.pc \in {"nfdlg", "warndlg"} => (list' = list /\ list' = Top.files)]_vars

\* the files under directory d whose extension is .mp4 in any case, in scan
\* order
Mp4FilesUnder(d) ==
    SelectSeq(ScanOrder, LAMBDA f : Under(d, f) /\ Lower(suffix(f)) = DotMp4)

\* C12: dropping a directory adds exactly the files under it whose extension
\* equals .mp4 case-insensitively, nothing else, in the order of the scan.
C12_DirectoryDropAddsEveryMp4 ==
    \A d \in FsDirs : DropItems(platform, d) = Mp4FilesUnder(d)

\* r is l without its entry at row: one shorter, the entries before row in
\* place, the later ones moved down by one
RemovedAt(l, row, r) ==
    /\ Len(r) = Len(l) - 1
    /\ \A k \in 1..(row - 1) : r[k] = l[k]
    /\ \A k \in row..Len(r) : r[k] = l[k + 1]

\* taking any row of the list removes exactly that entry
C13_TakeItemRemovesRow ==
    \A row \in 1..Len(list) : RemovedAt(list, row, takeItem(list, row))

\* a user event that shortens the list removes exactly one entry, at a row
\* of the list
C13_RemoveStep ==
    (stack' = stack /\ Len(list') < Len(list)) =>
        \E row \in 1..Len(list) : RemovedAt(list, row, list')

Stem(p) == SubSeq(basename(p), 1, Len(basename(p)) - Len(suffix(p)))

\* the argument list the converter is to be given for a source path
ExpectedArgv(output_dir, file) ==
    <<"ffmpeg_path", "-i", file, "-c:v", "copy", "-c:a", "pcm_s24le",
      output_dir \o <<"/">> \o Stem(file) \o <<".", "m", "o", "v">>, "-y">>

\* C14: every converter invocation is given -i <input> -c:v copy -c:a
\* pcm_s24le <output> -y in this order, the output being the output
\* directory joined with the stem of the source name plus ".mov", whatever
\* the case of the source extension: c.mp4 and c.MP4 both give c.mov.
C14_OutputPathAndArguments ==
    \A f \in Frames :
        /\ Len(f.calls) = Len(f.attempts)
        /\ \A k \in 1..Len(f.calls) :
              /\ f.calls[k] = ExpectedArgv(f.output_dir, f.files[k])
              /\ f.files[k] \in {FileAC, FileABC} =>
                    f.calls[k][8] = f.output_dir \o <<"/", "c", ".", "m", "o", "v">>

C14_Witness ==
    \E f \in Frames : \E k \in 1..Len(f.calls) : f.attempts[k] = FileABC

----------------------------------------------------------------------------
(* Sessions in which the output-folder field is edited *)

\* the window just shown: the field is empty (line 91); nothing exists yet at
\* the candidate output paths
InitEdit ==
    /\ list = <<>>
    /\ text = <<>>
    /\ fs = [d \in OutDirs |-> "absent"]
    /\ progress = 0
    /\ progressVisible = FALSE
    /\ stack = <<>>
    /\ alive = TRUE
    /\ platform \in Platforms
    /\ submitted = {}

NextEdit == Next \/ editOutput

SpecEdit == InitEdit /\ [][NextEdit]_vars

\* the positions of the characters of t that are not white space
NonSpace(t) == {k \in 1..Len(t) : t[k] # " "}
Min(S) == CHOOSE k \in S : \A j \in S : k <= j
Max(S) == CHOOSE k \in S : \A j \in S : j <= k

\* "Converted_2024-03-07"
Converted_2024_03_07 ==
    <<"C", "o", "n", "v", "e", "r", "t", "e", "d", "_",
      "2", "0", "2", "4", "-", "0", "3", "-", "0", "7">>

\* the directory name for text t on 2024-03-07: t from its first to its last
\* character that is not white space, or the dated name when it has none
ExpectedDir(t) ==
    IF NonSpace(t) = {} THEN Converted_2024_03_07
    ELSE SubSeq(t, Min(NonSpace(t)), Max(NonSpace(t)))

\* the examples: "  MyClips " gives "MyClips"; empty and blank text give the
\* dated name
C15_Examples ==
    \A now \in Dates :
        /\ resolve(<<" ", " ", "M", "y", "C", "l", "i", "p", "s", " ">>, now)
              = <<"M", "y", "C", "l", "i", "p", "s">>
        /\ resolve(<<>>, now) = Converted_2024_03_07
        /\ resolve(<<" ", " ">>, now) = Converted_2024_03_07

\* a call that begins takes its directory from the text of that moment, and
\* a call that goes on keeps the directory it has
C15_ResolveStep ==
    /\ Len(stack') > Len(stack) => stack'[Len(stack')].output_dir = ExpectedDir(text)
    /\ \A k \in 1..Len(stack) :
          k <= Len(stack') => stack'[k].output_dir = stack[k].output_dir

\* C15: the output directory name is resolved once per batch: the text of
\* the field without surrounding white space when that is not empty,
\* otherwise "Converted_" and the date as YYYY-MM-DD.
C15_ResolvedOncePerBatch == [](C15_Examples) /\ [][C15_ResolveStep]_vars

C15_Witness ==
    /\ stack # <<>>
    /\ Top.pc = "run"
    /\ Top.i = 2
    /\ Top.output_dir = <<"x">>
    /\ text = <<>>

\* C16: the progress values a batch emits never decrease and lie between 0
\* and 100 percent, and after a ConverterNotFound abort the last value
\* emitted is the fraction of the last job that completed before the abort.
C16_ProgressMonotoneAndLast ==
    \A f \in Frames :
        /\ \A k \in 1..Len(f.emitted) : f.emitted[k] \in 0..100
        /\ \A j, k \in 1..Len(f.emitted) : j <= k => f.emitted[j] <= f.emitted[k]
        /\ (f.fatal /\ f.outcomes # <<>>) =>
              /\ f.emitted # <<>>
              /\ f.emitted[Len(f.emitted)] = Pct(Len(f.outcomes), Total(f))

\* the calls of convert_files that run a batch (those that found the list
\* empty run none)
Batches == {k \in 1..Len(stack) : stack[k].files # <<>>}

\* C17: the runner is never Running twice at once: a convert trigger
\* delivered while a batch is in progress starts no second, nested batch.
C17_NeverRunningTwice == Cardinality(Batches) <= 1

\* C19: within one batch distinct source paths are written to distinct
\* output paths: no job is given the output file that an earlier successful
\* job of the same batch produced from another source.
C19_DistinctOutputs ==
    \A f \in Frames : \A j, k \in 1..Len(f.calls) :
        (j < k /\ j <= Len(f.outcomes) /\ f.outcomes[j] = "ok" /\ f.calls[j][3] # f.calls[k][3])
            => f.calls[j][8] # f.calls[k][8]

\* the paths the list holds
Held(l) == {l[k] : k \in 1..Len(l)}

\* the step is the user removing a row (remove_item, which leaves every
\* call of convert_files where it stands)
UserRemoval == stack' = stack /\ \E row \in 1..Len(list) : list' = takeItem(list, row)

\* C18: no dropped path is silently lost: a path leaves the list only when
\* the user removes it or when some batch has handed it to the converter,
\* paths dropped while a batch runs and paths whose job failed included.
C18_NoPathSilentlyLost ==
    [][~UserRemoval => \A p \in Held(list) \ Held(list') : p \in submitted']_vars

----------------------------------------------------------------------------
(* Termination *)

\* The running program: the interpreter goes on with the loop (launch,
\* loopEnd), every ffmpeg process exits and every dialog is dismissed.
\* Each call of QApplication.processEvents() returns once the pending events
\* are handled; a click it dispatches runs a whole nested call before it can
\* return, which disables its return for the time of that call, hence
\* strong fairness, for the call at each depth: none is forever handed one
\* more click.
Fairness ==
    /\ WF_vars(launch)
    /\ WF_vars(loopEnd)
    /\ WF_vars(subprocessExit)
    /\ WF_vars(dismissError)
    /\ WF_vars(dismissNotFound)
    /\ WF_vars(dismissDone)
    /\ WF_vars(dismissWarning)
    /\ \A d \in 1..MaxDepth : SF_vars(processEventsReturn /\ Len(stack) = d)

\* the program as started, with the output field empty and no output
\* directory on disk yet, run under the fairness above
FairSpec == InitEdit /\ [][Next]_vars /\ Fairness

\* the call of convert_files at depth d has returned and the window takes a
\* click on the convert button
EndedAt(d) == Len(stack) < d /\ ENABLED convert_files

====
